---- MODULE Spec2Model ----
(***************************************************************************)
(* A model of the financial consistency engine of the AVIN personal        *)
(* ledger: the ledger page (record / amend / delete of transactions        *)
(* against account and party balances) and the portfolio page (trade       *)
(* execution, weighted-average-cost derivation, linked cash transactions). *)
(*                                                                         *)
(* The repository holds two revisions of each page.  The variable          *)
(* `revision` says which one a run is executing:                           *)
(*   "unnamed" : src/unnamed/part_004 (ledger), src/unnamed/part_001       *)
(*               (portfolio, full-replay engine with trade amendment)      *)
(*   "pages"   : src/pages/TransactionsPage.tsx (ledger),                  *)
(*               src/pages/PortfolioPage.tsx (portfolio, incremental       *)
(*               update; src/unnamed/part_002 has the same executeTrade)   *)
(*                                                                         *)
(* Numbers are JavaScript doubles in the program.  Amounts, quantities,    *)
(* prices and charges are drawn from integers here, and every quotient is  *)
(* kept as an exact fraction <<numerator, denominator>>: IEEE rounding is  *)
(* abstracted away, everything else of the arithmetic is kept.             *)
(*                                                                         *)
(* Date strings (YYYY-MM-DD, compared with localeCompare) are modelled by  *)
(* naturals in the same order; 0 is the empty string.  Ids are the very    *)
(* strings the template literals of the program build.                     *)
(***************************************************************************)
EXTENDS Integers, Sequences, FiniteSets, TLC

VARIABLES
  revision,      \* which revision of the pages is running (never changes)
  accounts,      \* AppData.accounts    : account id -> [balance, openingBalance]
  parties,       \* AppData.parties     : party id   -> [currentBalance]
  transactions,  \* AppData.transactions: sequence of Transaction, newest first
  investments,   \* AppData.investments : sequence of Investment
  now,           \* the value the next Date.now() returns
  lastOp         \* history variable: what the last handler did

vars == <<revision, accounts, parties, transactions, investments, now, lastOp>>

(***************************************************************************)
(* Bounds of the model.                                                    *)
(***************************************************************************)
\* how many ledger entries a run of the ledger page creates
MaxLedgerEntries == 1
\* how many assets a run of the portfolio page holds
MaxAssets == 1
\* how many times a run presses "Authorize" on the trade form (part_001)
MaxTradeOps == 2
\* the same, for the runs that follow a retroactive edit of a longer history
MaxRetroOps == 4
\* how many times a run of PortfolioPage.tsx reads the clock (new asset, trade)
MaxPortfolioOps == 3
\* how many messages with tool calls the assistant receives in a run
MaxMessages == 2
\* how many tool calls one message of the assistant carries
MaxToolCalls == 2
MaxMarkAssets == 2
MaxClock == 2
MaxClockEntries == 2
MaxClockDrift == 2

(***************************************************************************)
(* Exact fractions.                                                        *)
(***************************************************************************)
Abs(x) == IF x < 0 THEN -x ELSE x

RECURSIVE Gcd(_, _)
Gcd(a, b) == IF b = 0 THEN a ELSE Gcd(b, a % b)

\* the fraction n/d in lowest terms with a positive denominator (d # 0)
Frac(n, d) ==
  LET g == Gcd(Abs(n), Abs(d))
      s == IF d < 0 THEN -1 ELSE 1
  IN  <<(s * n) \div g, (s * d) \div g>>

FInt(i) == <<i, 1>>
FAdd(a, b) == Frac(a[1] * b[2] + b[1] * a[2], a[2] * b[2])
FSub(a, b) == Frac(a[1] * b[2] - b[1] * a[2], a[2] * b[2])
FMul(a, b) == Frac(a[1] * b[1], a[2] * b[2])
FDiv(a, b) == Frac(a[1] * b[2], a[2] * b[1])
FZero == <<0, 1>>

(***************************************************************************)
(* Sequence helpers (Array.prototype.filter / find).                       *)
(***************************************************************************)
RECURSIVE FilterOutId(_, _)
\* arr.filter(t => t.id !== id)
FilterOutId(arr, id) ==
  IF arr = <<>> THEN <<>>
  ELSE IF Head(arr).id = id THEN FilterOutId(Tail(arr), id)
       ELSE <<Head(arr)>> \o FilterOutId(Tail(arr), id)

\* the index arr.find(t => t.id === id) stops at, 0 when there is none
FindIndexById(arr, id) ==
  IF \E i \in 1..Len(arr) : arr[i].id = id
  THEN CHOOSE i \in 1..Len(arr) :
         arr[i].id = id /\ \A j \in 1..(i - 1) : arr[j].id # id
  ELSE 0

(***************************************************************************)
(* Initial data.                                                           *)
(***************************************************************************)
\* const INITIAL_DATA of the application root
INITIAL_DATA ==
  [accounts     |-> [a \in {"cash-01"} |-> [balance |-> 0, openingBalance |-> 0]],
   parties      |-> [p \in {} |-> [currentBalance |-> 0]],
   transactions |-> <<>>,
   investments  |-> <<>>]

\* INITIAL_DATA after the account registry added the account bank-02 (created
\* with balance = openingBalance) and the party registry added the party p1
\* (created with currentBalance = 0)
RegistryData ==
  [INITIAL_DATA EXCEPT
     !.accounts = [a \in {"cash-01", "bank-02"} |->
                     IF a = "cash-01" THEN INITIAL_DATA.accounts[a]
                     ELSE [balance |-> 50, openingBalance |-> 50]],
     !.parties = [p \in {"p1"} |-> [currentBalance |-> 0]]]

\* the options of the account and party selects of the forms
AccountIds == DOMAIN RegistryData.accounts
PartyIds == DOMAIN RegistryData.parties

\* the application starts on the data d, with the clock at 1
InitData(d) ==
  /\ accounts = d.accounts
  /\ parties = d.parties
  /\ transactions = d.transactions
  /\ investments = d.investments
  /\ now = 1
  /\ lastOp = [op |-> "init"]

(***************************************************************************)
(* TransactionType, and the balance updates the handlers share.            *)
(***************************************************************************)
INCOME == "income"
EXPENSE == "expense"
SALE == "sale"
PURCHASE == "purchase"
TransactionType == {INCOME, EXPENSE, SALE, PURCHASE}

\* accounts with `delta` added to the balance of account `id` (if it resolves)
BumpAccount(accs, id, delta) ==
  IF id \in DOMAIN accs
  THEN [accs EXCEPT ![id].balance = @ + delta]
  ELSE accs

\* parties with `delta` added to the currentBalance of party `id` (if it resolves)
BumpParty(ps, id, delta) ==
  IF id \in DOMAIN ps
  THEN [ps EXCEPT ![id].currentBalance = @ + delta]
  ELSE ps

(***************************************************************************)
(* The ledger page.  `editing` is the form state: the entry form opens     *)
(* with id '' (new entry) or with a listed transaction (edit), and the     *)
(* form changes type, date, amount, description and account.  No control   *)
(* of the form sets partyId: an edited transaction keeps the one it has.   *)
(***************************************************************************)
LedgerAmounts == {0, 1}
LedgerDates == {0, 1}
Descriptions == {"", "rent"}

\* the Transaction handleSave builds from the form
FormTransaction(editing) ==
  [id      |-> IF editing.id # "" THEN editing.id ELSE ToString(now),
   type    |-> editing.type,
   date    |-> editing.date,
   amount  |-> editing.amount,
   account |-> editing.account,
   partyId |-> editing.partyId]

\* the contents the form can hold when Save is pressed: every valid content,
\* and one content for each way of failing the check of line 29
FormContents ==
  {f \in [type : TransactionType, date : LedgerDates, description : Descriptions,
          amount : LedgerAmounts, account : AccountIds] :
     \/ f.date # 0 /\ f.description # "" /\ f.amount # 0
     \/ /\ f.type = EXPENSE /\ f.account = "cash-01"
        /\ \/ f.date = 0 /\ f.description # "" /\ f.amount = 1
           \/ f.date # 0 /\ f.description = "" /\ f.amount = 1
           \/ f.date # 0 /\ f.description # "" /\ f.amount = 0}

\* the form, opened for a new entry (id '') or on the listed transaction t
NewForm(f) ==
  [id |-> "", partyId |-> "", type |-> f.type, date |-> f.date,
   description |-> f.description, amount |-> f.amount, account |-> f.account]

EditForm(t, f) ==
  [id |-> t.id, partyId |-> t.partyId, type |-> f.type, date |-> f.date,
   description |-> f.description, amount |-> f.amount, account |-> f.account]

\* what the form shows when it opens on the listed transaction t
ContentOf(t) ==
  [type |-> t.type, date |-> t.date, description |-> "rent",
   amount |-> t.amount, account |-> t.account]

EditingForms ==
  {NewForm(f) : f \in FormContents} \cup
  UNION {{EditForm(transactions[i], f) :
            f \in FormContents \cup {ContentOf(transactions[i])}} :
         i \in 1..Len(transactions)}

\* handleSave line 29: the early return
SaveRejected(editing) ==
  editing.description = "" \/ editing.amount = 0 \/ editing.date = 0

\* a reversal that forgets that a sale, like an income, had raised the balance
RevertOldAccount_SaleAsOutflow(accs, old) ==
  BumpAccount(accs, old.account,
              IF old.type = INCOME THEN -old.amount ELSE old.amount)

\* "Revert Old Record if editing": the account of the old record
RevertOldAccount(accs, old) ==
  BumpAccount(accs, old.account,
              IF old.type = INCOME \/ old.type = SALE THEN -old.amount ELSE old.amount)

\* a reversal that leaves the party of the old record as it is
RevertOldParty_Skipped(ps, old) == ps

\* "Revert Old Record if editing": the party of the old record
RevertOldParty(ps, old) ==
  BumpParty(ps, old.partyId,
            IF old.type = SALE THEN -old.amount
            ELSE IF old.type = PURCHASE THEN old.amount
            ELSE IF old.type = INCOME THEN old.amount
            ELSE IF old.type = EXPENSE THEN -old.amount
            ELSE 0)

\* "Apply New Impact": the account of the saved record
ApplyNewAccount(accs, trans) ==
  BumpAccount(accs, trans.account,
              IF trans.type = INCOME \/ trans.type = SALE THEN trans.amount
              ELSE -trans.amount)

\* an application that credits the party for an income, unlike the reversal
ApplyNewParty_IncomeCredits(ps, trans) ==
  BumpParty(ps, trans.partyId,
            IF trans.type = SALE THEN trans.amount
            ELSE IF trans.type = PURCHASE THEN -trans.amount
            ELSE IF trans.type = INCOME THEN trans.amount
            ELSE IF trans.type = EXPENSE THEN trans.amount
            ELSE 0)

\* "Apply New Impact": the party of the saved record
ApplyNewParty(ps, trans) ==
  BumpParty(ps, trans.partyId,
            IF trans.type = SALE THEN trans.amount
            ELSE IF trans.type = PURCHASE THEN -trans.amount
            ELSE IF trans.type = INCOME THEN -trans.amount
            ELSE IF trans.type = EXPENSE THEN trans.amount
            ELSE 0)

\* deleteTransaction: data.accounts.map(...)
DeleteAccountDelta(accs, trans) ==
  BumpAccount(accs, trans.account,
              IF trans.type = INCOME \/ trans.type = SALE THEN -trans.amount
              ELSE trans.amount)

\* a delete that reverses a purchase on the party as if it were a sale
DeletePartyDelta_PurchaseAsSale(ps, trans) ==
  BumpParty(ps, trans.partyId,
            IF trans.type = SALE \/ trans.type = PURCHASE \/ trans.type = EXPENSE
            THEN -trans.amount ELSE trans.amount)

\* deleteTransaction: data.parties.map(...)
DeletePartyDelta(ps, trans) ==
  BumpParty(ps, trans.partyId,
            IF trans.type = SALE THEN -trans.amount
            ELSE IF trans.type = PURCHASE THEN trans.amount
            ELSE IF trans.type = INCOME THEN trans.amount
            ELSE IF trans.type = EXPENSE THEN -trans.amount
            ELSE 0)

\* TransactionsPage.tsx, handleSave: reverting the account of the old record
pagesRevertOldAccount(accs, old) ==
  BumpAccount(accs, old.account,
              IF old.type = INCOME \/ old.type = SALE THEN -old.amount ELSE old.amount)

\* TransactionsPage.tsx, handleSave: applying the saved record to its account
pagesApplyNewAccount(accs, trans) ==
  BumpAccount(accs, trans.account,
              IF trans.type = INCOME \/ trans.type = SALE THEN trans.amount
              ELSE -trans.amount)

\* TransactionsPage.tsx, deleteTransaction: data.accounts.map(...)
pagesDeleteAccountDelta(accs, trans) ==
  BumpAccount(accs, trans.account,
              IF trans.type = INCOME \/ trans.type = SALE THEN -trans.amount
              ELSE trans.amount)

\* what lastOp records of a save
SaveOp(editing, trans, oldIdx, given) ==
  [op |-> IF oldIdx = 0 THEN (IF editing.id = "" THEN "record" ELSE "amendAbsent")
          ELSE IF transactions[oldIdx] = trans THEN "amendSame" ELSE "amend",
   given |-> given]

\* let accounts = [...data.accounts]; let parties = [...(data.parties || [])]
\* (part_004 lines 44-45, TransactionsPage.tsx lines 50-51): the arrays are
\* new, the objects in them are the objects of `data`, so that the balances
\* the handler writes (oldAcc.balance -= ..., newParty.currentBalance += ...)
\* are also the balances of the snapshot it was given
SharedObjects(accs, ps) == [accounts |-> accs, parties |-> ps]

\* the body of handleSave of src/unnamed/part_004 for the form state `editing`;
\* `allowed` bounds the new entries of a run, and `ticks` holds the numbers
\* of milliseconds the clock can have advanced by when Date.now() is read next
saveEditingAt(editing, allowed, ticks) ==
  IF SaveRejected(editing)
  THEN /\ lastOp' = [op |-> "rejected"]
       /\ UNCHANGED <<revision, accounts, parties, transactions, investments, now>>
  ELSE LET trans == FormTransaction(editing)
           oldIdx == IF editing.id # "" THEN FindIndexById(transactions, editing.id) ELSE 0
           old == transactions[oldIdx]
           accs1 == IF oldIdx # 0 THEN RevertOldAccount(accounts, old) ELSE accounts
           ps1 == IF oldIdx # 0 THEN RevertOldParty(parties, old) ELSE parties
           temp == IF oldIdx # 0 THEN FilterOutId(transactions, editing.id)
                   ELSE transactions
       IN  /\ editing.id = "" => allowed
           /\ accounts' = ApplyNewAccount(accs1, trans)
           /\ parties' = ApplyNewParty(ps1, trans)
           /\ transactions' = <<trans>> \o temp
           /\ \E tick \in ticks : now' = IF editing.id = "" THEN now + tick ELSE now
           /\ lastOp' = SaveOp(editing, trans, oldIdx,
                               SharedObjects(ApplyNewAccount(accs1, trans),
                                             ApplyNewParty(ps1, trans)))
           /\ UNCHANGED <<revision, investments>>

\* handleSave when no two operations fall into the same millisecond
saveEditing(editing) == saveEditingAt(editing, now <= MaxLedgerEntries, {1})

\* LedgerPage.handleSave of src/unnamed/part_004
handleSave ==
  /\ revision = "unnamed"
  /\ \E editing \in EditingForms : saveEditing(editing)

\* the ids deleteTransaction can be called with: the listed ones, and one
\* that is not in the list
DeletableIds == {transactions[i].id : i \in 1..Len(transactions)} \cup {"404"}

\* LedgerPage.deleteTransaction of src/unnamed/part_004
deleteTransaction ==
  /\ revision = "unnamed"
  /\ \E id \in DeletableIds :
       IF FindIndexById(transactions, id) = 0
       THEN /\ lastOp' = [op |-> "deleteAbsent"]
            /\ UNCHANGED <<revision, accounts, parties, transactions, investments, now>>
       ELSE LET trans == transactions[FindIndexById(transactions, id)]
            IN  /\ accounts' = DeleteAccountDelta(accounts, trans)
                /\ parties' = DeletePartyDelta(parties, trans)
                /\ transactions' = FilterOutId(transactions, id)
                /\ lastOp' = [op |-> "delete"]
                /\ UNCHANGED <<revision, investments, now>>

\* the body of handleSave of src/pages/TransactionsPage.tsx: no party is touched
pagesSaveEditing(editing) ==
  IF SaveRejected(editing)
  THEN /\ lastOp' = [op |-> "rejected"]
       /\ UNCHANGED <<revision, accounts, parties, transactions, investments, now>>
  ELSE LET trans == FormTransaction(editing)
           oldIdx == IF editing.id # "" THEN FindIndexById(transactions, editing.id) ELSE 0
           old == transactions[oldIdx]
           accs1 == IF oldIdx # 0 THEN pagesRevertOldAccount(accounts, old) ELSE accounts
           temp == IF oldIdx # 0 THEN FilterOutId(transactions, editing.id)
                   ELSE transactions
       IN  /\ editing.id = "" => now <= MaxLedgerEntries
           /\ accounts' = pagesApplyNewAccount(accs1, trans)
           /\ transactions' = <<trans>> \o temp
           /\ now' = IF editing.id = "" THEN now + 1 ELSE now
           /\ lastOp' = SaveOp(editing, trans, oldIdx,
                               SharedObjects(pagesApplyNewAccount(accs1, trans), parties))
           /\ UNCHANGED <<revision, parties, investments>>

\* LedgerPage.handleSave of src/pages/TransactionsPage.tsx
pagesHandleSave ==
  /\ revision = "pages"
  /\ \E editing \in EditingForms : pagesSaveEditing(editing)

\* LedgerPage.deleteTransaction of src/pages/TransactionsPage.tsx
pagesDeleteTransaction ==
  /\ revision = "pages"
  /\ \E id \in DeletableIds :
       IF FindIndexById(transactions, id) = 0
       THEN /\ lastOp' = [op |-> "deleteAbsent"]
            /\ UNCHANGED <<revision, accounts, parties, transactions, investments, now>>
       ELSE LET trans == transactions[FindIndexById(transactions, id)]
            IN  /\ accounts' = pagesDeleteAccountDelta(accounts, trans)
                /\ transactions' = FilterOutId(transactions, id)
                /\ lastOp' = [op |-> "delete"]
                /\ UNCHANGED <<revision, parties, investments, now>>

(***************************************************************************)
(* The ledger specification.  A run starts from the registry data or from *)
(* a ledger that already holds one transaction of a party, as the parties  *)
(* page leaves it: recorded with the effects of recordTransaction.         *)
(***************************************************************************)
\* signedDelta of the ledger contract: what a live transaction contributes to
\* the balance of its account
signedDelta(t) ==
  IF t.type \in {INCOME, SALE} THEN t.amount ELSE -t.amount

\* partySignedDelta of the ledger contract: what a live transaction
\* contributes to the currentBalance of its party
partySignedDelta(t) ==
  IF t.type \in {SALE, EXPENSE} THEN t.amount ELSE -t.amount

SeedAmounts == {1, 2}

\* the data after recordTransaction(seed) on the registry data
SeededData(seed) ==
  [RegistryData EXCEPT
     !.accounts = BumpAccount(RegistryData.accounts, seed.account, signedDelta(seed)),
     !.parties = BumpParty(RegistryData.parties, seed.partyId, partySignedDelta(seed)),
     !.transactions = <<seed>>]

InitLedger ==
  /\ revision \in {"unnamed", "pages"}
  /\ \/ InitData(RegistryData)
     \/ \E ty \in TransactionType, am \in SeedAmounts, p \in PartyIds :
          InitData(SeededData([id |-> "0", type |-> ty, date |-> 1, amount |-> am,
                               account |-> "cash-01", partyId |-> p]))

NextLedger ==
  \/ handleSave
  \/ deleteTransaction
  \/ pagesHandleSave
  \/ pagesDeleteTransaction

SpecLedger == InitLedger /\ [][NextLedger]_vars

(***************************************************************************)
(* The portfolio page of src/unnamed/part_001: every trade execution and   *)
(* every amendment replays the whole history of the asset.                  *)
(***************************************************************************)
\* the asset executeTrade starts from when the form names a new one (line 88)
NewTargetAsset(tradeData) ==
  [id |-> ToString(now), name |-> tradeData.newName, qty |-> 0,
   avgBuyPrice |-> FZero, currPrice |-> tradeData.price, history |-> <<>>,
   status |-> "active", totalRealizedPL |-> FZero]

\* the index data.investments.find(i => i.id === id) stops at, 0 for none
FindAsset(id) == FindIndexById(investments, id)

\* const netImpact (line 96)
netImpact(tradeData) ==
  IF tradeData.type = "buy"
  THEN tradeData.qty * tradeData.price + tradeData.charges
  ELSE tradeData.qty * tradeData.price - tradeData.charges

\* ledgerTrans.id (line 100): `trade-${tradeData.id}` or `trade-${timestamp}`
ledgerTransId(tradeData) ==
  IF tradeData.id # "" THEN "trade-" \o tradeData.id
  ELSE "trade-" \o ToString(now)

\* a linked transaction that is always booked on the first account
ledgerTrans_FirstAccount(tradeData) ==
  [id      |-> ledgerTransId(tradeData),
   type    |-> IF tradeData.type = "buy" THEN EXPENSE ELSE INCOME,
   date    |-> tradeData.date,
   amount  |-> Abs(netImpact(tradeData)),
   account |-> "cash-01",
   partyId |-> ""]

\* const ledgerTrans (lines 99-108)
ledgerTrans(tradeData) ==
  [id      |-> ledgerTransId(tradeData),
   type    |-> IF tradeData.type = "buy" THEN EXPENSE ELSE INCOME,
   date    |-> tradeData.date,
   amount  |-> Abs(netImpact(tradeData)),
   account |-> tradeData.accountId,
   partyId |-> ""]

\* const tradeRecord (line 110)
tradeRecord(tradeData) ==
  [id |-> IF tradeData.id # "" THEN tradeData.id ELSE "tr-" \o ToString(now),
   date |-> tradeData.date, type |-> tradeData.type, qty |-> tradeData.qty,
   price |-> tradeData.price, charges |-> tradeData.charges]

RECURSIVE InsertByDate_BeforeEqualDates(_, _)
\* an insertion that places h in front of the entries of its own date
InsertByDate_BeforeEqualDates(sorted, h) ==
  IF sorted = <<>> THEN <<h>>
  ELSE IF Head(sorted).date < h.date
       THEN <<Head(sorted)>> \o InsertByDate_BeforeEqualDates(Tail(sorted), h)
       ELSE <<h>> \o sorted

RECURSIVE InsertByDate(_, _)
\* h placed behind every entry whose date is not later than its own
InsertByDate(sorted, h) ==
  IF sorted = <<>> THEN <<h>>
  ELSE IF Head(sorted).date <= h.date
       THEN <<Head(sorted)>> \o InsertByDate(Tail(sorted), h)
       ELSE <<h>> \o sorted

RECURSIVE SortByDate(_)
\* history.sort((a,b) => a.date.localeCompare(b.date)): ascending and stable
SortByDate(history) ==
  IF history = <<>> THEN <<>>
  ELSE InsertByDate(SortByDate(SubSeq(history, 1, Len(history) - 1)),
                    history[Len(history)])

\* a recalculation that resumes from the fields the asset already holds
RecalcStart_FromAsset(targetAsset) ==
  [calcQty |-> targetAsset.qty,
   totalCostBasis |-> FMul(FInt(targetAsset.qty), targetAsset.avgBuyPrice),
   totalRealizedPL |-> targetAsset.totalRealizedPL]

\* let calcQty = 0; let totalCostBasis = 0; let totalRealizedPL = 0 (lines 120-122)
RecalcStart(targetAsset) ==
  [calcQty |-> 0, totalCostBasis |-> FZero, totalRealizedPL |-> FZero]

\* a buy cost that leaves the charges out
costWithCharges_NoCharges(h) == h.qty * h.price

\* const costWithCharges (line 126)
costWithCharges(h) == h.qty * h.price + h.charges

\* the body of the forEach (lines 125-135)
RecalcStep(acc, h) ==
  IF h.type = "buy"
  THEN [calcQty |-> acc.calcQty + h.qty,
        totalCostBasis |-> FAdd(acc.totalCostBasis, FInt(costWithCharges(h))),
        totalRealizedPL |-> acc.totalRealizedPL]
  ELSE LET currentAvg == IF acc.calcQty > 0
                         THEN FDiv(acc.totalCostBasis, FInt(acc.calcQty))
                         ELSE FZero
           profitOnSale == FSub(FMul(FSub(FInt(h.price), currentAvg), FInt(h.qty)),
                                FInt(h.charges))
       IN  [calcQty |-> acc.calcQty - h.qty,
            totalCostBasis |-> FSub(acc.totalCostBasis, FMul(currentAvg, FInt(h.qty))),
            totalRealizedPL |-> FAdd(acc.totalRealizedPL, profitOnSale)]

RECURSIVE Recalc(_, _)
\* the forEach over the sorted history (lines 124-136)
Recalc(acc, sorted) ==
  IF sorted = <<>> THEN acc
  ELSE Recalc(RecalcStep(acc, Head(sorted)), Tail(sorted))

\* const finalAsset (lines 138-145)
finalAsset(targetAsset, history, acc) ==
  [id |-> targetAsset.id,
   name |-> targetAsset.name,
   qty |-> IF acc.calcQty > 0 THEN acc.calcQty ELSE 0,
   avgBuyPrice |-> IF acc.calcQty > 0
                   THEN FDiv(acc.totalCostBasis, FInt(acc.calcQty))
                   ELSE FZero,
   currPrice |-> targetAsset.currPrice,
   history |-> history,
   totalRealizedPL |-> acc.totalRealizedPL,
   status |-> IF acc.calcQty > 0 THEN "active" ELSE "closed"]

\* "Synchronize Settlement Account" (lines 151-158)
updatedAccounts(tradeData) ==
  BumpAccount(accounts, tradeData.accountId,
              IF tradeData.type = "buy" THEN -netImpact(tradeData)
              ELSE netImpact(tradeData))

\* the transactions handed to onSave (line 160)
updatedTransactions(tradeData) ==
  <<ledgerTrans(tradeData)>> \o FilterOutId(transactions, ledgerTrans(tradeData).id)

\* what the trade form can hold when "Authorize" is pressed, for the trade
\* contents `forms`: a new asset, a listed asset, the edit of a listed trade,
\* and one form for each way of failing the checks of lines 91-92
TradeDatas(forms) ==
  LET blank == [qty |-> 0, price |-> 1, charges |-> 0, type |-> "buy", date |-> 1,
                accountId |-> "cash-01"]
      With(id, assetId, newName, f) ==
        [id |-> id, assetId |-> assetId, newName |-> newName, type |-> f.type,
         qty |-> f.qty, price |-> f.price, charges |-> f.charges, date |-> f.date,
         accountId |-> f.accountId]
  IN  {With("", "", "NEW", f) : f \in IF Len(investments) < MaxAssets THEN forms ELSE {}}
      \cup UNION {{With("", investments[i].id, "", f) : f \in forms} :
                    i \in 1..Len(investments)}
      \cup UNION {UNION {{With(investments[i].history[k].id, investments[i].id, "", f) :
                           f \in forms} :
                         k \in 1..Len(investments[i].history)} :
                  i \in 1..Len(investments)}
      \cup {With("", "", "", [blank EXCEPT !.qty = 1]),
            With("", "", "NEW", blank),
            With("", "", "NEW", [blank EXCEPT !.qty = 1, !.price = 0])}

\* a check of the execution metrics that leaves the price out
InvalidMetrics_PriceUnchecked(tradeData) == tradeData.qty <= 0

\* tradeData.qty <= 0 || tradeData.price <= 0 (line 92)
InvalidMetrics(tradeData) == tradeData.qty <= 0 \/ tradeData.price <= 0

\* PortfolioPage.executeTrade of src/unnamed/part_001; `allowed` bounds the
\* executions of a run, `ticks` as in saveEditingAt
executeTradeAt(forms, allowed, ticks) ==
  /\ revision = "unnamed"
  /\ allowed
  /\ \E tradeData \in TradeDatas(forms) :
       LET found == IF tradeData.assetId # "" THEN FindAsset(tradeData.assetId) ELSE 0
           defined == found # 0 \/ (tradeData.assetId = "" /\ tradeData.newName # "")
           targetAsset == IF found # 0 THEN investments[found]
                          ELSE NewTargetAsset(tradeData)
           \* updatedInvestments.findIndex(i => i.id === targetAsset.id) (line 113)
           assetIdx == FindAsset(targetAsset.id)
       IN  IF ~defined \/ InvalidMetrics(tradeData)
           THEN /\ lastOp' = [op |-> "rejected",
                              why |-> IF ~defined THEN "asset" ELSE "metrics"]
                /\ UNCHANGED <<revision, accounts, parties, transactions, investments, now>>
           ELSE LET pushed == Append(IF tradeData.id # ""
                                     THEN FilterOutId(targetAsset.history, tradeData.id)
                                     ELSE targetAsset.history,
                                     tradeRecord(tradeData))
                    history == SortByDate(pushed)
                    final == finalAsset(targetAsset, history,
                                        Recalc(RecalcStart(targetAsset), history))
                IN  /\ investments' = IF assetIdx # 0
                                      THEN [investments EXCEPT ![assetIdx] = final]
                                      ELSE Append(investments, final)
                    /\ accounts' = updatedAccounts(tradeData)
                    /\ transactions' = updatedTransactions(tradeData)
                    /\ \E tick \in ticks : now' = now + tick
                    /\ lastOp' = [op |-> IF tradeData.id # "" THEN "amendTrade" ELSE "trade"]
                    /\ UNCHANGED <<revision, parties>>

\* executeTrade when no two operations fall into the same millisecond
executeTrade(forms, maxOps) == executeTradeAt(forms, now <= maxOps, {1})

\* the trade contents of the trade runs: the quantities, prices and charges of
\* the cost-basis scenario (buy 10 @ 100 charges 10, sell 4 @ 150 charges 5)
TradeForms ==
  {[type |-> ty, qty |-> q, price |-> p, charges |-> c, date |-> d,
    accountId |-> "cash-01"] :
     ty \in {"buy", "sell"}, q \in {4, 10}, p \in {100, 150}, c \in {5, 10},
     d \in {1, 2}}

\* the trade contents of the retroactive-edit runs: unit quantities, two prices
RetroForms ==
  {[type |-> ty, qty |-> 1, price |-> p, charges |-> 0, date |-> d,
    accountId |-> "cash-01"] :
     ty \in {"buy", "sell"}, p \in {1, 2}, d \in {1, 2}}

InitTrade == revision = "unnamed" /\ InitData(INITIAL_DATA)

NextTrade == executeTrade(TradeForms, MaxTradeOps)

SpecTrade == InitTrade /\ [][NextTrade]_vars

NextRetro == executeTrade(RetroForms, MaxRetroOps)

SpecRetro == InitTrade /\ [][NextRetro]_vars

(***************************************************************************)
(* The portfolio page of src/pages/PortfolioPage.tsx: assets are created   *)
(* through the asset form, and a trade updates the asset incrementally.    *)
(***************************************************************************)
\* the prices the mark-price inputs of the page can hold (0 for an empty input)
MarkPrices == {0, 120}

\* a price update that maps the new price onto every asset
updatedMktPrice_EveryAsset(assetId, newPrice) ==
  [k \in 1..Len(investments) |-> [investments[k] EXCEPT !.currPrice = newPrice]]

\* const updated = data.investments.map(...) (lines 42-44)
updatedMktPrice(assetId, newPrice) ==
  [k \in 1..Len(investments) |->
     IF investments[k].id = assetId
     THEN [investments[k] EXCEPT !.currPrice = newPrice]
     ELSE investments[k]]

\* handleUpdateMktPrice (lines 41-46), called from the price input of a
\* listed asset (line 320)
handleUpdateMktPrice ==
  /\ revision = "pages"
  /\ \E i \in 1..Len(investments), newPrice \in MarkPrices :
       /\ investments' = updatedMktPrice(investments[i].id, newPrice)
       /\ lastOp' = [op |-> "markPrice"]
  /\ UNCHANGED <<revision, accounts, parties, transactions, now>>

\* openAddAsset (lines 48-61), before the form is filled in
openAddAsset ==
  [id |-> ToString(now), name |-> "", qty |-> 0, avgBuyPrice |-> FZero,
   currPrice |-> 0, history |-> <<>>, status |-> "active",
   totalRealizedPL |-> FZero]

\* what the asset form can hold when it is saved: a new asset or a listed one
\* (line 336), with the name and the price as typed (lines 424, 435)
EditingAssetsUpTo(maxAssets) ==
  {[e EXCEPT !.name = n, !.currPrice = c] :
     e \in (IF Len(investments) < maxAssets /\ now <= MaxPortfolioOps
            THEN {openAddAsset} ELSE {})
           \cup {investments[i] : i \in 1..Len(investments)},
     n \in {"", "NEW"}, c \in MarkPrices}

EditingAssets == EditingAssetsUpTo(MaxAssets)

\* handleSaveAsset (lines 63-84), for the form states `forms`
saveAsset(forms) ==
  /\ revision = "pages"
  /\ \E editingAsset \in forms :
       IF editingAsset.name = ""
       THEN /\ lastOp' = [op |-> "rejected", why |-> "name"]
            /\ UNCHANGED <<investments, now>>
       ELSE LET index == FindIndexById(investments, editingAsset.id)
                final == [editingAsset EXCEPT !.status = "active"]
            IN  /\ investments' = IF index # 0
                                  THEN [investments EXCEPT ![index] = final]
                                  ELSE Append(investments, final)
                /\ now' = IF index # 0 THEN now ELSE now + 1
                /\ lastOp' = [op |-> "saveAsset"]
  /\ UNCHANGED <<revision, accounts, parties, transactions>>

handleSaveAsset == saveAsset(EditingAssets)

\* const tradeTotalImpact (lines 93-95)
tradeTotalImpact(tradeData) ==
  IF tradeData.type = "buy"
  THEN tradeData.qty * tradeData.price + tradeData.charges
  ELSE tradeData.qty * tradeData.price - tradeData.charges

\* the asset returned by the map of lines 108-147
pagesTradedAsset(inv, tradeData) ==
  LET pagesTradeRecord ==
        [id |-> "tr-" \o ToString(now), date |-> tradeData.date,
         type |-> tradeData.type, qty |-> tradeData.qty,
         price |-> tradeData.price, charges |-> tradeData.charges]
      currentTotalCost == FMul(FInt(inv.qty), inv.avgBuyPrice)
      newTradeCost == tradeData.qty * tradeData.price + tradeData.charges
      profitOnThisSell ==
        FSub(FMul(FSub(FInt(tradeData.price), inv.avgBuyPrice), FInt(tradeData.qty)),
             FInt(tradeData.charges))
  IN  IF tradeData.type = "buy"
      THEN [inv EXCEPT
              !.qty = inv.qty + tradeData.qty,
              !.avgBuyPrice = FDiv(FAdd(currentTotalCost, FInt(newTradeCost)),
                                   FInt(inv.qty + tradeData.qty)),
              !.history = Append(inv.history, pagesTradeRecord),
              !.currPrice = tradeData.price]
      ELSE [inv EXCEPT
              !.qty = inv.qty - tradeData.qty,
              !.totalRealizedPL = FAdd(inv.totalRealizedPL, profitOnThisSell),
              !.history = Append(inv.history, pagesTradeRecord),
              !.currPrice = tradeData.price]

\* tradeData.qty <= 0 || tradeData.price <= 0 (line 87)
pagesInvalidMetrics(tradeData) == tradeData.qty <= 0 \/ tradeData.price <= 0

\* PortfolioPage.executeTrade of src/pages/PortfolioPage.tsx (lines 86-168)
pagesExecuteTrade(forms) ==
  /\ revision = "pages"
  /\ now <= MaxPortfolioOps
  /\ \E i \in 1..Len(investments),
        tradeData \in forms \cup UNION {{[f EXCEPT !.qty = 0], [f EXCEPT !.price = 0]} :
                                          f \in {CHOOSE g \in forms : TRUE}} :
       LET tradingAsset == investments[i]
       IN  IF \/ pagesInvalidMetrics(tradeData)
              \/ (tradeData.type = "sell" /\ tradingAsset.qty < tradeData.qty)
           THEN /\ lastOp' = [op |-> "rejected",
                              why |-> IF pagesInvalidMetrics(tradeData) THEN "metrics"
                                      ELSE "holding"]
                /\ UNCHANGED <<accounts, transactions, investments, now>>
           ELSE /\ investments' =
                     [investments EXCEPT ![i] = pagesTradedAsset(tradingAsset, tradeData)]
                /\ accounts' = BumpAccount(accounts, tradeData.accountId,
                                           IF tradeData.type = "buy"
                                           THEN -tradeTotalImpact(tradeData)
                                           ELSE tradeTotalImpact(tradeData))
                /\ transactions' =
                     <<[id |-> "trade-" \o ToString(now),
                        type |-> IF tradeData.type = "buy" THEN EXPENSE ELSE INCOME,
                        date |-> tradeData.date,
                        amount |-> Abs(tradeTotalImpact(tradeData)),
                        account |-> tradeData.accountId,
                        partyId |-> ""]>> \o transactions
                /\ now' = now + 1
                /\ lastOp' = [op |-> "trade"]
  /\ UNCHANGED <<revision, parties>>

InitPortfolio == revision = "pages" /\ InitData(INITIAL_DATA)

NextPortfolio ==
  \/ handleUpdateMktPrice
  \/ handleSaveAsset
  \/ pagesExecuteTrade(TradeForms)

SpecPortfolio == InitPortfolio /\ [][NextPortfolio]_vars

InitInvest == revision \in {"unnamed", "pages"} /\ InitData(INITIAL_DATA)

NextInvest ==
  \/ executeTrade(TradeForms, MaxTradeOps)
  \/ handleUpdateMktPrice
  \/ handleSaveAsset
  \/ pagesExecuteTrade(TradeForms)

SpecInvest == InitInvest /\ [][NextInvest]_vars

\* the trade contents of the settlement runs: either account of the form's
\* account select (line 381 of part_001, line 471 of PortfolioPage.tsx), and
\* charges below and above the value of the trade
SettleForms ==
  {[type |-> ty, qty |-> q, price |-> 100, charges |-> c, date |-> 1,
    accountId |-> a] :
     ty \in {"buy", "sell"}, q \in {4, 10}, c \in {5, 500}, a \in AccountIds}

InitSettle == revision \in {"unnamed", "pages"} /\ InitData(RegistryData)

NextSettle ==
  \/ executeTrade(SettleForms, MaxTradeOps)
  \/ handleSaveAsset
  \/ pagesExecuteTrade(SettleForms)

SpecSettle == InitSettle /\ [][NextSettle]_vars

\* the trade contents of the mark-price runs: buys and sells of two sizes
MarkForms ==
  {[type |-> ty, qty |-> q, price |-> 100, charges |-> 5, date |-> 1,
    accountId |-> "cash-01"] : ty \in {"buy", "sell"}, q \in {4, 10}}

\* the portfolio page of PortfolioPage.tsx with several assets listed
NextMark ==
  \/ saveAsset(EditingAssetsUpTo(MaxMarkAssets))
  \/ handleUpdateMktPrice
  \/ pagesExecuteTrade(MarkForms)

SpecMark == InitPortfolio /\ [][NextMark]_vars

\* the trade contents of the charges runs: the charges input (line 375 of
\* part_001, line 466 of PortfolioPage.tsx) holds any number it parses, an
\* empty input counts as 0
ChargeForms ==
  {[type |-> ty, qty |-> q, price |-> 100, charges |-> c, date |-> 1,
    accountId |-> "cash-01"] :
     ty \in {"buy", "sell"}, q \in {4, 10}, c \in {-5, 0, 5}}

NextCharges ==
  \/ executeTrade(ChargeForms, MaxTradeOps)
  \/ handleSaveAsset
  \/ pagesExecuteTrade(ChargeForms)

SpecCharges == InitInvest /\ [][NextCharges]_vars

\* the trade contents of the back-dating runs: buys of 10 and sells of 4, so
\* that no sell empties a holding, on either of two dates (the date input,
\* line 360 of part_001 and line 452 of PortfolioPage.tsx, takes any date)
BackdateForms ==
  {[type |-> ty, qty |-> IF ty = "buy" THEN 10 ELSE 4, price |-> p, charges |-> 5,
    date |-> d, accountId |-> "cash-01"] :
     ty \in {"buy", "sell"}, p \in {100, 150}, d \in {1, 2}}

NextBackdate ==
  \/ executeTrade(BackdateForms, MaxTradeOps)
  \/ handleSaveAsset
  \/ pagesExecuteTrade(BackdateForms)

SpecBackdate == InitInvest /\ [][NextBackdate]_vars

(***************************************************************************)
(* The assistant ("Maya") of src/unnamed/part_005 and src/unnamed/part_006. *)
(* A message of the live session carries tool calls; the handler of each   *)
(* call works on a copy of the data the component last rendered with       *)
(* (dataRef.current in part_005, `data` in part_006) and hands the changed *)
(* copy to onSave.  The loop over the calls of one message runs without a  *)
(* render in between, so every call of the message copies the same data.   *)
(* Messages are taken from sessions whose data is the current data when    *)
(* the message arrives.  Descriptions are not part of the model: a         *)
(* deleteEntry call carries the ids of the transactions whose description  *)
(* contains its search term.                                               *)
(***************************************************************************)
\* the data the pages and the assistant are rendered with
CurrentData ==
  [accounts |-> accounts, parties |-> parties, transactions |-> transactions,
   investments |-> investments]

\* the arguments a recordTransaction call can carry: valid ones, and one for
\* each of amount 0, a negative amount, an empty date, an unknown account
RecordArgs ==
  LET valid == [type |-> EXPENSE, amount |-> 1, date |-> 1, accountId |-> "cash-01"]
  IN  {[name |-> "recordTransaction", args |-> a] :
         a \in {valid, [valid EXCEPT !.type = INCOME], [valid EXCEPT !.amount = 0],
                [valid EXCEPT !.amount = -1], [valid EXCEPT !.date = 0],
                [valid EXCEPT !.accountId = "acc-404"]}}

\* the deleteEntry calls for transactions: one for every set of listed
\* transactions a search term can match
DeleteArgs ==
  {[name |-> "deleteEntry", args |-> [type |-> "transaction", matches |-> m]] :
     m \in SUBSET {transactions[i].id : i \in 1..Len(transactions)}}

\* the functionCalls of one message
ToolCallLists ==
  UNION {[1..n -> RecordArgs \cup DeleteArgs] : n \in 1..MaxToolCalls}

\* handleFunctionCall, recordTransaction branch (part_005 lines 211-233,
\* part_006 lines 181-206): the data handed to onSave
mayaRecordTransaction(currentData, args) ==
  LET trans == [id |-> ToString(now), type |-> args.type, date |-> args.date,
                amount |-> args.amount, account |-> args.accountId, partyId |-> ""]
  IN  [currentData EXCEPT
         !.accounts = BumpAccount(currentData.accounts, trans.account,
                                  IF trans.type = INCOME \/ trans.type = SALE
                                  THEN trans.amount ELSE -trans.amount),
         !.transactions = <<trans>> \o currentData.transactions]

\* transactions.findIndex(t => t.description.toLowerCase().includes(term))
FindIndexMatching(txs, matches) ==
  IF \E i \in 1..Len(txs) : txs[i].id \in matches
  THEN CHOOSE i \in 1..Len(txs) :
         txs[i].id \in matches /\ \A j \in 1..(i - 1) : txs[j].id \notin matches
  ELSE 0

\* handleFunctionCall, deleteEntry branch of part_005 (lines 163-195): the
\* first match is removed and its account effect reversed
mayaDeleteEntry(currentData, args) ==
  LET idx == FindIndexMatching(currentData.transactions, args.matches)
      target == currentData.transactions[idx]
  IN  IF idx = 0 THEN currentData
      ELSE [currentData EXCEPT
              !.accounts = BumpAccount(currentData.accounts, target.account,
                                       IF target.type = INCOME \/ target.type = SALE
                                       THEN -target.amount ELSE target.amount),
              !.transactions = SubSeq(currentData.transactions, 1, idx - 1)
                               \o SubSeq(currentData.transactions, idx + 1,
                                         Len(currentData.transactions))]

\* handleFunctionCall, deleteEntry branch of part_006 (lines 236-265): every
\* match is filtered out, the accounts are left as they are
maya6DeleteEntry(currentData, args) ==
  [currentData EXCEPT
     !.transactions = SelectSeq(currentData.transactions,
                                LAMBDA t : t.id \notin args.matches)]

\* handleFunctionCall: the data the call hands to onSave, and whether it does
handleFunctionCall(part, currentData, fc) ==
  IF fc.name = "recordTransaction"
  THEN [found |-> TRUE, data |-> mayaRecordTransaction(currentData, fc.args)]
  ELSE LET deleted == IF part = "part_005" THEN mayaDeleteEntry(currentData, fc.args)
                      ELSE maya6DeleteEntry(currentData, fc.args)
       IN  [found |-> deleted.transactions # currentData.transactions,
            data |-> deleted]

RECURSIVE RunToolCalls(_, _, _, _)
\* for (const fc of msg.toolCall.functionCalls) handleFunctionCall(fc): every
\* call copies `rendered`; `saved` is the data of the latest onSave
RunToolCalls(part, calls, rendered, saved) ==
  IF calls = <<>> THEN saved
  ELSE LET res == handleFunctionCall(part, rendered, Head(calls))
       IN  RunToolCalls(part, Tail(calls), rendered,
                        IF res.found THEN res.data ELSE saved)

\* onmessage with a toolCall (part_005 lines 325-330, part_006 lines 362-367);
\* `allowed` bounds the messages of a run, `ticks` as in saveEditingAt
onmessageAt(part, allowed, ticks) ==
  /\ allowed
  /\ \E calls \in ToolCallLists :
       LET saved == RunToolCalls(part, calls, CurrentData, CurrentData)
       IN  /\ accounts' = saved.accounts
           /\ parties' = saved.parties
           /\ transactions' = saved.transactions
           /\ investments' = saved.investments
           /\ \E tick \in ticks : now' = now + tick
           /\ lastOp' = [op |-> "message", part |-> part, calls |-> calls,
                         removed |-> {transactions[i] : i \in
                                        {j \in 1..Len(transactions) :
                                           transactions[j].id \notin
                                             {saved.transactions[k].id :
                                                k \in 1..Len(saved.transactions)}}}]
  /\ UNCHANGED revision

\* onmessage when no two operations fall into the same millisecond
onmessage(part) == onmessageAt(part, now <= MaxMessages, {1})

part005Message == onmessage("part_005")

part006Message == onmessage("part_006")

\* the entry form was opened on a listed transaction (setEditing(t)) before
\* the last message removed that transaction, and is saved after it
OpenedBeforeMessage ==
  IF lastOp.op = "message"
  THEN UNION {{EditForm(t, f) : f \in FormContents \cup {ContentOf(t)}} :
                t \in lastOp.removed}
  ELSE {}

\* handleSave of src/unnamed/part_004 on a form opened before the last message
handleSaveOpened ==
  /\ revision = "unnamed"
  /\ \E editing \in OpenedBeforeMessage : saveEditing(editing)

\* handleSave of src/pages/TransactionsPage.tsx on a form opened before the
\* last message
pagesHandleSaveOpened ==
  /\ revision = "pages"
  /\ \E editing \in OpenedBeforeMessage : pagesSaveEditing(editing)

InitAssistant ==
  /\ revision \in {"unnamed", "pages"}
  /\ \/ InitData(RegistryData)
     \/ \E ty \in TransactionType, p \in PartyIds :
          InitData(SeededData([id |-> "0", type |-> ty, date |-> 1, amount |-> 2,
                               account |-> "cash-01", partyId |-> p]))

NextAssistant ==
  \/ part005Message
  \/ part006Message
  \/ deleteTransaction
  \/ pagesDeleteTransaction
  \/ handleSaveOpened
  \/ pagesHandleSaveOpened

SpecAssistant == InitAssistant /\ [][NextAssistant]_vars

(***************************************************************************)
(* The creating operations under a clock that need not advance between     *)
(* two of them: the ids of part_004 (line 32), part_005 (line 213) and      *)
(* part_001 (lines 100, 110) are readings of Date.now(), in milliseconds.  *)
(***************************************************************************)
\* a run reads the clock up to MaxClock, stores up to MaxClockEntries
\* transactions and as many trades in a history, and stops where a balance
\* has moved from its opening balance by more than MaxClockDrift (an
\* amendment repeated within one millisecond moves it every time)
ClockAllowed ==
  /\ now <= MaxClock
  /\ Len(transactions) < MaxClockEntries
  /\ \A i \in 1..Len(investments) : Len(investments[i].history) < MaxClockEntries
  /\ \A a \in DOMAIN accounts :
       Abs(accounts[a].balance - accounts[a].openingBalance) <= MaxClockDrift

\* handleSave of src/unnamed/part_004 on the form opened for a new entry on
\* the cash account
clockHandleSave ==
  /\ revision = "unnamed"
  /\ \E f \in {g \in FormContents : g.account = "cash-01"} :
       saveEditingAt(NewForm(f), ClockAllowed, {0, 1})

\* onmessage of src/unnamed/part_005
clockMessage == onmessageAt("part_005", ClockAllowed, {0, 1})

\* executeTrade of src/unnamed/part_001
clockExecuteTrade ==
  executeTradeAt({f \in RetroForms : f.price = 1 /\ f.date = 1}, ClockAllowed, {0, 1})

InitClock == revision = "unnamed" /\ InitData(RegistryData)

NextClock ==
  \/ clockHandleSave
  \/ clockMessage
  \/ clockExecuteTrade

SpecClock == InitClock /\ [][NextClock]_vars

(***************************************************************************)
(* Properties of the ledger page.                                          *)
(***************************************************************************)
RECURSIVE AccountDeltaSum(_, _)
\* the sum of signedDelta over the transactions of txs whose account is a
AccountDeltaSum(txs, a) ==
  IF txs = <<>> THEN 0
  ELSE (IF Head(txs).account = a THEN signedDelta(Head(txs)) ELSE 0)
       + AccountDeltaSum(Tail(txs), a)

RECURSIVE PartyDeltaSum(_, _)
\* the sum of partySignedDelta over the transactions of txs whose partyId is p
PartyDeltaSum(txs, p) ==
  IF txs = <<>> THEN 0
  ELSE (IF Head(txs).partyId = p THEN partySignedDelta(Head(txs)) ELSE 0)
       + PartyDeltaSum(Tail(txs), p)

\* C1: after any sequence of record, amend and delete operations of the ledger
\* page, the balance of every account is its opening balance plus the sum of
\* signedDelta over the live transactions of that account.
C1_AccountBalanceInvariant ==
  \A a \in DOMAIN accounts :
    accounts[a].balance =
      accounts[a].openingBalance + AccountDeltaSum(transactions, a)

\* an amendment has just been saved and some account carries two live
\* transactions and a balance that differs from its opening balance
C1_Witness ==
  /\ lastOp.op = "amend"
  /\ \E a \in DOMAIN accounts :
       /\ Cardinality({i \in 1..Len(transactions) : transactions[i].account = a}) >= 2
       /\ accounts[a].balance # accounts[a].openingBalance

\* C4: saving an amendment whose content is identical to the live transaction
\* it replaces leaves every account balance and every party balance unchanged.
C4_IdenticalAmendKeepsBalances ==
  [][lastOp'.op = "amendSame" => accounts' = accounts /\ parties' = parties]_vars

\* a transaction of a party (now first in the list) has just been amended
\* with identical content, and the party's balance is not zero
C4_Witness ==
  /\ lastOp.op = "amendSame"
  /\ transactions # <<>>
  /\ transactions[1].partyId \in DOMAIN parties
  /\ parties[transactions[1].partyId].currentBalance # 0

\* C5: after any sequence of record, amend and delete operations, the
\* currentBalance of every party is the sum of partySignedDelta over the live
\* transactions of that party.
C5_PartyBalanceInvariant ==
  \A p \in DOMAIN parties :
    parties[p].currentBalance = PartyDeltaSum(transactions, p)


(***************************************************************************)
(* Properties of the portfolio page.                                       *)
(***************************************************************************)
\* cash effect of a trade: a buy pays value + charges, a sell receives value - charges
TradeCashEffect(h) ==
  IF h.type = "buy" THEN -(h.qty * h.price + h.charges)
  ELSE h.qty * h.price - h.charges

RECURSIVE HistoryCashSum(_)
HistoryCashSum(history) ==
  IF history = <<>> THEN 0
  ELSE TradeCashEffect(Head(history)) + HistoryCashSum(Tail(history))

RECURSIVE AllTradesCashSum(_)
AllTradesCashSum(invs) ==
  IF invs = <<>> THEN 0
  ELSE HistoryCashSum(Head(invs).history) + AllTradesCashSum(Tail(invs))

RECURSIVE BalanceMovement(_)
\* the sum, over a set of account ids, of balance - openingBalance
BalanceMovement(ids) ==
  IF ids = {} THEN 0
  ELSE LET a == CHOOSE x \in ids : TRUE
       IN  accounts[a].balance - accounts[a].openingBalance
           + BalanceMovement(ids \ {a})

\* C2: after any sequence of trade executions and amendments, the account
\* balances reflect exactly the latest version of every trade: the movement
\* of the balances equals the cash effect of the trades in the histories.
C2_NoDoubleCounting ==
  BalanceMovement(DOMAIN accounts) = AllTradesCashSum(investments)

\* t is the ledger transaction linked to the trade h: its id is "trade-"
\* followed by the trade's id or by the clock reading in the trade's id
LinkedTo(t, h) ==
  \/ t.id = "trade-" \o h.id
  \/ \E n \in 1..now : h.id = "tr-" \o ToString(n) /\ t.id = "trade-" \o ToString(n)

\* C3: every trade in a history has exactly one linked ledger transaction.
C3_OneLinkedTransaction ==
  \A i \in 1..Len(investments) :
    \A k \in 1..Len(investments[i].history) :
      Cardinality({j \in 1..Len(transactions) :
                     LinkedTo(transactions[j], investments[i].history[k])}) = 1

RECURSIVE ReplayFromZero(_, _, _, _)
\* replay(history) of the cost-basis engine, started from nothing: the
\* quantity, cost basis and realized P/L after the trades, in the order given
ReplayFromZero(trades, q, cost, pl) ==
  IF trades = <<>> THEN [qty |-> q, cost |-> cost, pl |-> pl]
  ELSE LET h == Head(trades)
           avg == IF q > 0 THEN FDiv(cost, FInt(q)) ELSE FZero
       IN  IF h.type = "buy"
           THEN ReplayFromZero(Tail(trades), q + h.qty,
                               FAdd(cost, FInt(h.qty * h.price + h.charges)), pl)
           ELSE ReplayFromZero(Tail(trades), q - h.qty,
                               FSub(cost, FMul(avg, FInt(h.qty))),
                               FAdd(pl, FSub(FMul(FSub(FInt(h.price), avg), FInt(h.qty)),
                                             FInt(h.charges))))

RECURSIVE DateOrderedFrom(_, _)
\* the trades dated d or later, in ascending date order, equal dates in stored order
DateOrderedFrom(history, d) ==
  IF \A k \in 1..Len(history) : history[k].date < d THEN <<>>
  ELSE SelectSeq(history, LAMBDA h : h.date = d) \o DateOrderedFrom(history, d + 1)

DateOrdered(history) == DateOrderedFrom(history, 0)

\* C6: the derived fields of every asset are those of a replay of its stored
\* history from zero, whatever qty, avgBuyPrice, totalRealizedPL and status
\* the asset held before.
C6_ReplayFromHistoryOnly ==
  \A i \in 1..Len(investments) :
    LET a == investments[i]
        r == ReplayFromZero(DateOrdered(a.history), 0, FZero, FZero)
    IN  /\ a.qty = IF r.qty > 0 THEN r.qty ELSE 0
        /\ a.avgBuyPrice = IF r.qty > 0 THEN FDiv(r.cost, FInt(r.qty)) ELSE FZero
        /\ a.totalRealizedPL = r.pl
        /\ a.status = IF r.qty > 0 THEN "active" ELSE "closed"

\* an amendment has turned the only trade of an asset into a sell: the asset
\* held units and an average price before the call, and holds none after it
C6_Witness ==
  /\ lastOp.op = "amendTrade"
  /\ \E i \in 1..Len(investments) :
       /\ Len(investments[i].history) = 1
       /\ investments[i].history[1].type = "sell"
       /\ investments[i].totalRealizedPL # FZero

\* the asset at position i before a step, a blank one if the step creates it
AssetBefore(i) ==
  IF i <= Len(investments) THEN investments[i]
  ELSE [qty |-> 0, avgBuyPrice |-> FZero, totalRealizedPL |-> FZero,
        history |-> <<>>, status |-> "active"]

\* the step appends the trade h to the history of the asset at position i
AppendsTrade(i, h) ==
  /\ i \in 1..Len(investments')
  /\ investments'[i].history = Append(AssetBefore(i).history, h)

RECURSIVE NeverOversold(_, _)
\* no sell of the history, in stored order, exceeds the quantity held before it
NeverOversold(history, held) ==
  \/ history = <<>>
  \/ LET h == Head(history)
     IN  IF h.type = "buy" THEN NeverOversold(Tail(history), held + h.qty)
         ELSE h.qty <= held /\ NeverOversold(Tail(history), held - h.qty)

\* the trade contents of a history: type, quantity, price and charges
Contents(history) ==
  [k \in 1..Len(history) |->
     <<history[k].type, history[k].qty, history[k].price, history[k].charges>>]

\* the scenario: buy 10 @ 100 charges 10, then sell 4 @ 150 charges 5
ScenarioHolds(a) ==
  /\ Contents(a.history) = << <<"buy", 10, 100, 10>> >>
       => a.qty = 10 /\ a.avgBuyPrice = FInt(101)
  /\ Contents(a.history) = << <<"buy", 10, 100, 10>>, <<"sell", 4, 150, 5>> >>
       => a.totalRealizedPL = FInt(191) /\ a.qty = 6 /\ a.avgBuyPrice = FInt(101)

\* the weighted-average rule for a trade h appended to an asset `old`
WeightedAverageStep(old, new, h) ==
  IF h.type = "buy"
  THEN /\ new.qty = old.qty + h.qty
       /\ FMul(new.avgBuyPrice, FInt(new.qty))
            = FAdd(FMul(old.avgBuyPrice, FInt(old.qty)),
                   FInt(h.qty * h.price + h.charges))
       /\ new.totalRealizedPL = old.totalRealizedPL
  ELSE h.qty <= old.qty =>
       /\ new.qty = old.qty - h.qty
       /\ new.totalRealizedPL
            = FAdd(old.totalRealizedPL,
                   FSub(FMul(FSub(FInt(h.price), old.avgBuyPrice), FInt(h.qty)),
                        FInt(h.charges)))
       /\ new.qty > 0 => new.avgBuyPrice = old.avgBuyPrice

\* C7: weighted-average cost. A buy appended to a history adds
\* qty*price + charges to the cost basis and qty to the quantity; a sell of
\* units held adds (price - average cost)*qty - charges to the realized P/L
\* and leaves the average cost of the remaining units unchanged; buy 10 @ 100
\* charges 10 gives qty 10 and average 101, and a following sell of 4 @ 150
\* charges 5 gives realized P/L 191, qty 6 and average 101.
C7_WeightedAverageCost ==
  [][\A i \in 1..Len(investments') :
       /\ ScenarioHolds(investments'[i])
       /\ \A k \in 1..Len(investments'[i].history) :
            LET h == investments'[i].history[k]
            IN  AppendsTrade(i, h) /\ NeverOversold(AssetBefore(i).history, 0)
                  => WeightedAverageStep(AssetBefore(i), investments'[i], h)]_vars

\* the scenario has been played: the sell of 4 @ 150 follows the buy of 10 @ 100
C7_Witness ==
  /\ lastOp.op = "trade"
  /\ \E i \in 1..Len(investments) :
       /\ Contents(investments[i].history)
            = << <<"buy", 10, 100, 10>>, <<"sell", 4, 150, 5>> >>
       /\ investments[i].totalRealizedPL = FInt(191)

\* the step amends only the price of the trade at position k of asset i, the
\* earliest buy of a history that holds a later sell
RetroPriceEdit(i, k) ==
  LET history == investments[i].history
      x == history[k]
  IN  /\ lastOp'.op = "amendTrade"
      /\ i <= Len(investments')
      /\ x.type = "buy"
      /\ \A j \in 1..Len(history) :
           j # k /\ history[j].type = "buy" => history[j].date > x.date
      /\ \E j \in 1..Len(history) :
           history[j].type = "sell" /\ history[j].date > x.date
      /\ \E j \in 1..Len(investments'[i].history) :
           LET y == investments'[i].history[j]
           IN  y.price # x.price /\ y = [x EXCEPT !.price = y.price]
      /\ FilterOutId(investments'[i].history, x.id) = FilterOutId(history, x.id)

\* C8: amending the price of the earliest buy of an asset whose history
\* contains a later sell changes the asset's totalRealizedPL.
C8_RetroactiveEditChangesPL ==
  [][\A i \in 1..Len(investments) :
       \A k \in 1..Len(investments[i].history) :
         RetroPriceEdit(i, k)
           => investments'[i].totalRealizedPL # investments[i].totalRealizedPL]_vars

\* C9: every asset has qty >= 0, avgBuyPrice = 0 exactly when qty = 0, and
\* status closed exactly when qty = 0 (otherwise active).
C9_AssetInvariant ==
  \A i \in 1..Len(investments) :
    LET a == investments[i]
    IN  /\ a.qty >= 0
        /\ a.avgBuyPrice = FZero <=> a.qty = 0
        /\ a.status = "closed" <=> a.qty = 0
        /\ a.status \in {"active", "closed"}

\* C10: the status of an asset moves active -> closed only when a trade
\* operation leaves qty = 0 and avgBuyPrice = 0, and closed -> active only
\* when a buy makes qty > 0; selling all remaining units closes the asset
\* and a following buy reopens it; there is no other status.
C10_StatusTransitions ==
  [][\A i \in 1..Len(investments') :
       LET old == AssetBefore(i)
           new == investments'[i]
           traded == lastOp'.op \in {"trade", "amendTrade"}
       IN  /\ new.status \in {"active", "closed"}
           /\ old.status = "active" /\ new.status = "closed"
                => traded /\ new.qty = 0 /\ new.avgBuyPrice = FZero
           /\ old.status = "closed" /\ new.status = "active"
                => traded /\ new.qty > 0
           /\ \A k \in 1..Len(new.history) :
                LET h == new.history[k]
                IN  AppendsTrade(i, h) =>
                      /\ h.type = "sell" /\ h.qty = old.qty
                           => new.status = "closed" /\ new.qty = 0
                              /\ new.avgBuyPrice = FZero
                      /\ h.type = "buy" /\ old.status = "closed"
                           => new.status = "active"]_vars

\* the position of the trade with the given id in a history, 0 for none
PositionOf(history, id) ==
  IF \E k \in 1..Len(history) : history[k].id = id
  THEN CHOOSE k \in 1..Len(history) : history[k].id = id
  ELSE 0

\* C11: replay processes the trades of an asset in ascending date order, and
\* trades that share a date in the order they were inserted: after every
\* execution the stored history is in ascending date order, the trade the
\* execution inserted (a new trade, or an amended one, which is removed and
\* inserted again) stands behind the trades of its own date, all other
\* trades are kept and stand in the order they stood in before, and the
\* derived fields are those of a replay of the history in exactly that order.
C11_ReplayInDateThenInsertionOrder ==
  [][\A i \in 1..Len(investments') :
       LET old == AssetBefore(i).history
           new == investments'[i].history
           r == ReplayFromZero(new, 0, FZero, FZero)
       IN  lastOp'.op \in {"trade", "amendTrade"} /\ investments'[i] # AssetBefore(i) =>
             /\ \A j, k \in 1..Len(new) : j < k => new[j].date <= new[k].date
             /\ \E x \in 1..Len(new) :
                  /\ lastOp'.op = "trade" => PositionOf(old, new[x].id) = 0
                  /\ lastOp'.op = "amendTrade" => PositionOf(old, new[x].id) # 0
                  /\ \A k \in 1..Len(new) : new[k].date = new[x].date => k <= x
                  /\ \A j \in 1..Len(old) :
                       old[j].id # new[x].id =>
                         /\ PositionOf(new, old[j].id) # 0
                         /\ new[PositionOf(new, old[j].id)] = old[j]
                  /\ \A j, k \in 1..Len(old) :
                       (j < k /\ old[j].id # new[x].id /\ old[k].id # new[x].id)
                         => PositionOf(new, old[j].id) < PositionOf(new, old[k].id)
             /\ investments'[i].totalRealizedPL = r.pl
             /\ investments'[i].qty = IF r.qty > 0 THEN r.qty ELSE 0]_vars

\* a sell was inserted behind a buy of the same date, and realized a profit
\* or loss against the average of that buy
C11_Witness ==
  /\ lastOp.op = "trade"
  /\ \E i \in 1..Len(investments) :
       LET h == investments[i].history
       IN  /\ Len(h) = 2
           /\ h[1].date = h[2].date
           /\ h[1].id = "tr-1" /\ h[2].id = "tr-2"
           /\ h[1].type = "buy" /\ h[2].type = "sell"
           /\ investments[i].qty = 6

\* C12: a sell whose qty exceeds the quantity the asset holds is rejected:
\* no step stores a sell of more units than the asset held before it.
C12_OversellRejected ==
  [][\A i \in 1..Len(investments') :
       \A k \in 1..Len(investments'[i].history) :
         LET h == investments'[i].history[k]
         IN  AppendsTrade(i, h) /\ h.type = "sell" => h.qty <= AssetBefore(i).qty]_vars

\* the ids of the transactions in a list
IdsOf(txs) == {txs[k].id : k \in 1..Len(txs)}

\* C13: recordTransaction with amount <= 0, an empty date or an account id
\* that resolves to no account fails and changes nothing, for every caller:
\* no step adds a transaction with such a field, and a step that adds none
\* and removes none leaves accounts and parties unchanged.
C13_RecordValidates ==
  [][/\ \A k \in 1..Len(transactions') :
          LET t == transactions'[k]
          IN  t.id \notin IdsOf(transactions)
                => t.amount > 0 /\ t.date # 0 /\ t.account \in DOMAIN accounts
     /\ lastOp'.op = "message" /\ transactions' = transactions
          => accounts' = accounts /\ parties' = parties]_vars

\* C14: amending a transaction whose id is not in the transaction list fails:
\* no transaction is added and no account or party balance changes.
C14_AmendAbsentFails ==
  [][lastOp'.op = "amendAbsent"
       => /\ transactions' = transactions
          /\ accounts' = accounts
          /\ parties' = parties]_vars

\* accounts with d added to the balance of account a, if there is one
AccountsPlus(accs, a, d) ==
  [x \in DOMAIN accs |->
     IF x = a THEN [accs[x] EXCEPT !.balance = accs[x].balance + d] ELSE accs[x]]

\* parties with d added to the currentBalance of party q, if there is one
PartiesPlus(ps, q, d) ==
  [x \in DOMAIN ps |->
     IF x = q THEN [ps[x] EXCEPT !.currentBalance = ps[x].currentBalance + d]
     ELSE ps[x]]

\* the step removes exactly the transaction t and reverses it on its account
\* and on its party
DeletesExactly(t) ==
  /\ transactions' = SelectSeq(transactions, LAMBDA u : u # t)
  /\ Len(transactions') = Len(transactions) - 1
  /\ accounts' = AccountsPlus(accounts, t.account, -signedDelta(t))
  /\ parties' = PartiesPlus(parties, t.partyId, -partySignedDelta(t))

\* C15: deleteTransaction of a live id removes exactly that transaction,
\* subtracts its signedDelta from its account and its partySignedDelta from
\* its party and changes no other balance; deleteTransaction of an absent id
\* changes nothing.
C15_DeleteReverses ==
  [][/\ lastOp'.op = "delete"
          => \E i \in 1..Len(transactions) : DeletesExactly(transactions[i])
     /\ lastOp'.op = "deleteAbsent"
          => /\ transactions' = transactions
             /\ accounts' = accounts
             /\ parties' = parties]_vars

\* C16: in the ledger page of part_004, recording a transaction changes its
\* account by +amount for income and sale and by -amount for expense and
\* purchase, and its party by +amount for sale and expense and by -amount for
\* purchase and income; an amendment applies the negation of the table for
\* the old version and the table for the new one, a delete the negation.
C16_SignTable ==
  [][revision = "unnamed" =>
       /\ lastOp'.op = "record" =>
            LET t == transactions'[1]
            IN  /\ accounts' = AccountsPlus(accounts, t.account, signedDelta(t))
                /\ parties' = PartiesPlus(parties, t.partyId, partySignedDelta(t))
       /\ lastOp'.op \in {"amend", "amendSame"} =>
            LET new == transactions'[1]
                old == transactions[PositionOf(transactions, new.id)]
            IN  /\ accounts' = AccountsPlus(
                                 AccountsPlus(accounts, old.account, -signedDelta(old)),
                                 new.account, signedDelta(new))
                /\ parties' = PartiesPlus(
                                PartiesPlus(parties, old.partyId, -partySignedDelta(old)),
                                new.partyId, partySignedDelta(new))
       /\ lastOp'.op = "delete" =>
            \E i \in 1..Len(transactions) : DeletesExactly(transactions[i])]_vars

\* the ledger page of part_004 has amended a transaction of a party into a
\* purchase on the other account, and the party balance went below zero
C16_Witness ==
  /\ revision = "unnamed"
  /\ lastOp.op = "amend"
  /\ transactions # <<>>
  /\ transactions[1].type = PURCHASE
  /\ transactions[1].partyId = "p1"
  /\ transactions[1].account = "bank-02"
  /\ parties["p1"].currentBalance = -transactions[1].amount
  /\ accounts["bank-02"].balance
       = accounts["bank-02"].openingBalance - transactions[1].amount


(***************************************************************************)
(* C17: every trade execution, the first recording of a trade or the       *)
(* amendment of a listed one, puts at the head of the ledger the           *)
(* transaction linked to the trade: an expense for a buy and an income for *)
(* a sell, dated like the trade, whose amount is |qty*price + charges| for *)
(* a buy and |qty*price - charges| for a sell, and whose account is the    *)
(* settlement account chosen in the form, the one account whose balance    *)
(* the execution moves.                                                    *)
(***************************************************************************)
TradeLedgerShape(t, h) ==
  /\ t.type = (IF h.type = "buy" THEN EXPENSE ELSE INCOME)
  /\ t.amount = Abs(IF h.type = "buy" THEN h.qty * h.price + h.charges
                    ELSE h.qty * h.price - h.charges)
  /\ t.date = h.date
  /\ t.account \in DOMAIN accounts
  /\ accounts'[t.account].balance # accounts[t.account].balance
  /\ \A a \in DOMAIN accounts : a # t.account => accounts'[a] = accounts[a]

C17_TradeProducesLinkedTransaction ==
  [][lastOp'.op \in {"trade", "amendTrade"} =>
       /\ transactions' # <<>>
       /\ \E i \in 1..Len(investments') : \E k \in 1..Len(investments'[i].history) :
            LET h == investments'[i].history[k]
                t == transactions'[1]
            IN  /\ IF lastOp'.op = "trade"
                   THEN h.id = "tr-" \o ToString(now) /\ t.id = "trade-" \o ToString(now)
                   ELSE t.id = "trade-" \o h.id
                /\ TradeLedgerShape(t, h)]_vars

\* a sell settled on the bank account whose charges exceed its value: the
\* linked transaction is an income of |4*100 - 500| on that account
C17_Witness ==
  /\ lastOp.op = "trade"
  /\ transactions # <<>>
  /\ transactions[1].type = INCOME
  /\ transactions[1].account = "bank-02"
  /\ transactions[1].amount = 100
  /\ \E i \in 1..Len(investments) : \E k \in 1..Len(investments[i].history) :
       /\ investments[i].history[k].type = "sell"
       /\ investments[i].history[k].charges = 500
       /\ LinkedTo(transactions[1], investments[i].history[k])


(***************************************************************************)
(* C18: an execution whose quantity or price is not positive is rejected   *)
(* (InvalidInput): the step changes no asset, no account and no            *)
(* transaction, and so no history ever holds a trade whose quantity or     *)
(* price is zero or negative.                                              *)
(***************************************************************************)
C18_InvalidMetricsRejected ==
  [][/\ lastOp'.op = "rejected" /\ lastOp'.why = "metrics" =>
          /\ investments' = investments
          /\ accounts' = accounts
          /\ transactions' = transactions
          /\ parties' = parties
     /\ \A i \in 1..Len(investments') : \A k \in 1..Len(investments'[i].history) :
          /\ investments'[i].history[k].qty > 0
          /\ investments'[i].history[k].price > 0]_vars

\* an execution with a quantity or price of 0 has just been rejected on a
\* portfolio that holds a trade
C18_Witness ==
  /\ lastOp.op = "rejected"
  /\ lastOp.why = "metrics"
  /\ \E i \in 1..Len(investments) : investments[i].history # <<>>
  /\ transactions # <<>>


(***************************************************************************)
(* C19: a message of the assistant that only carries deleteEntry calls     *)
(* reverses the balance effect of every transaction it removes: if every   *)
(* account balance was its opening balance plus the signedDelta of its     *)
(* live transactions before the message, it is so after it.                *)
(***************************************************************************)
OnlyDeleteEntry(calls) ==
  \A n \in DOMAIN calls : calls[n].name = "deleteEntry"

C19_DeleteEntryReverses ==
  [][/\ lastOp'.op = "message"
     /\ OnlyDeleteEntry(lastOp'.calls)
     /\ C1_AccountBalanceInvariant
     => C1_AccountBalanceInvariant']_vars

(***************************************************************************)
(* C20: the tool calls of one message are applied one after the other,     *)
(* each to the data the call before it left: after the message the         *)
(* accounts, the parties and the number of transactions are those of       *)
(* applying the calls in turn, so that no earlier call's effect is lost.   *)
(***************************************************************************)
RECURSIVE AppliedInTurn(_, _, _)
AppliedInTurn(part, calls, snapshot) ==
  IF calls = <<>> THEN snapshot
  ELSE LET res == handleFunctionCall(part, snapshot, Head(calls))
       IN  AppliedInTurn(part, Tail(calls), IF res.found THEN res.data ELSE snapshot)

C20_CallsSeeLatestSnapshot ==
  [][lastOp'.op = "message" =>
       LET inTurn == AppliedInTurn(lastOp'.part, lastOp'.calls, CurrentData)
       IN  /\ accounts' = inTurn.accounts
           /\ parties' = inTurn.parties
           /\ Len(transactions') = Len(inTurn.transactions)]_vars


(***************************************************************************)
(* C21: setMarkPrice changes only the currPrice of the targeted asset: the *)
(* step keeps the qty, avgBuyPrice, totalRealizedPL, status and history of *)
(* every asset, the currPrice of every other asset, and all accounts,      *)
(* parties and transactions.                                               *)
(***************************************************************************)
C21_MarkPriceFrame ==
  [][lastOp'.op = "markPrice" =>
       /\ Len(investments') = Len(investments)
       /\ \E i \in 1..Len(investments) :
            investments' = [investments EXCEPT ![i].currPrice = investments'[i].currPrice]
       /\ accounts' = accounts
       /\ parties' = parties
       /\ transactions' = transactions]_vars

\* a mark price was set on a traded asset while a second asset keeps a
\* different price
C21_Witness ==
  /\ lastOp.op = "markPrice"
  /\ Len(investments) = 2
  /\ investments[1].history # <<>>
  /\ investments[1].currPrice = 120
  /\ investments[2].currPrice = 0
  /\ transactions # <<>>


\* C22: in every reachable state every live transaction has amount > 0,
\* whether it was entered in the ledger form, recorded by the assistant or
\* generated by a trade execution.
C22_AmountsPositive ==
  \A k \in 1..Len(transactions) : transactions[k].amount > 0


\* C23: in every reachable state every trade stored in the history of an
\* asset has qty > 0, price > 0 and charges >= 0.
C23_TradeFieldsValid ==
  \A i \in 1..Len(investments) : \A k \in 1..Len(investments[i].history) :
    /\ investments[i].history[k].qty > 0
    /\ investments[i].history[k].price > 0
    /\ investments[i].history[k].charges >= 0


\* C24: in every reachable state the stored qty, avgBuyPrice and
\* totalRealizedPL of every asset are those of a replay from scratch of its
\* stored history in date order, for the recalculating trade path and for
\* the incremental one, also after a trade dated earlier than stored trades.
C24_StoredEqualsReplay ==
  \A i \in 1..Len(investments) :
    LET r == ReplayFromZero(DateOrdered(investments[i].history), 0, FZero, FZero)
    IN  /\ investments[i].qty = (IF r.qty > 0 THEN r.qty ELSE 0)
        /\ investments[i].totalRealizedPL = r.pl
        /\ investments[i].avgBuyPrice =
             (IF r.qty > 0 THEN FDiv(r.cost, FInt(r.qty)) ELSE FZero)


(***************************************************************************)
(* C25: amending a live transaction yields the account balances, party     *)
(* balances and live transactions of deleting it and then recording the    *)
(* new transaction, also when the new transaction names another account    *)
(* or is of another type than the old one.                                 *)
(***************************************************************************)
\* the data deleteTransaction leaves for the listed transaction old
AfterDelete(old) ==
  [accounts |-> IF revision = "unnamed" THEN DeleteAccountDelta(accounts, old)
                ELSE pagesDeleteAccountDelta(accounts, old),
   parties |-> IF revision = "unnamed" THEN DeletePartyDelta(parties, old) ELSE parties,
   transactions |-> FilterOutId(transactions, old.id)]

\* the data a record of trans leaves when it starts from the data d
AfterRecord(d, trans) ==
  [accounts |-> IF revision = "unnamed" THEN ApplyNewAccount(d.accounts, trans)
                ELSE pagesApplyNewAccount(d.accounts, trans),
   parties |-> IF revision = "unnamed" THEN ApplyNewParty(d.parties, trans) ELSE d.parties,
   transactions |-> <<trans>> \o d.transactions]

\* the step is what deleting old and then recording trans leaves
IsDeleteThenRecord(old, trans) ==
  LET both == AfterRecord(AfterDelete(old), trans)
  IN  /\ accounts' = both.accounts
      /\ parties' = both.parties
      /\ transactions' = both.transactions

C25_AmendIsDeleteThenRecord ==
  [][lastOp'.op = "amend" \/ lastOp'.op = "amendSame" =>
       /\ transactions' # <<>>
       /\ \E i \in 1..Len(transactions) :
            /\ transactions[i].id = transactions'[1].id
            /\ IsDeleteThenRecord(transactions[i], transactions'[1])]_vars

\* a transaction with a party was amended into a sale on the other account:
\* the old account is back at its opening balance
C25_Witness ==
  /\ revision = "unnamed"
  /\ lastOp.op = "amend"
  /\ transactions # <<>>
  /\ transactions[1].type = SALE
  /\ transactions[1].partyId = "p1"
  /\ transactions[1].account = "bank-02"
  /\ accounts["cash-01"].balance = accounts["cash-01"].openingBalance
  /\ accounts["bank-02"].balance
       = accounts["bank-02"].openingBalance + transactions[1].amount
  /\ parties["p1"].currentBalance = transactions[1].amount


(***************************************************************************)
(* C26: a record or an amendment of the ledger page does not modify the    *)
(* snapshot it was given: when the handler returns, the account and party  *)
(* objects of that snapshot hold the balances they held before, and only   *)
(* the saved snapshot carries the changed ones.                            *)
(***************************************************************************)
C26_GivenSnapshotUntouched ==
  [][lastOp'.op \in {"record", "amend", "amendSame", "amendAbsent"} =>
       /\ lastOp'.given.accounts = accounts
       /\ lastOp'.given.parties = parties]_vars


\* C27: for every history reachable through executeTrade the running
\* quantity of the date-ordered replay is never negative, after any of its
\* trades and not only at its end, so that no sell is costed against a
\* holding of zero or less.
C27_RunningQtyNeverNegative ==
  \A i \in 1..Len(investments) :
    LET ordered == DateOrdered(investments[i].history)
    IN  \A k \in 1..Len(ordered) :
          ReplayFromZero(SubSeq(ordered, 1, k), 0, FZero, FZero).qty >= 0


(***************************************************************************)
(* C28: an amendment that leaves the date of the trade as it was keeps the *)
(* trade at its place among the trades of the asset, and an amendment with *)
(* identical content leaves the qty, avgBuyPrice and totalRealizedPL of    *)
(* the asset as they were.                                                 *)
(***************************************************************************)
\* every trade of old is in new under its id and with its date
SameIdsAndDates(old, new) ==
  /\ Len(new) = Len(old)
  /\ \A k \in 1..Len(old) :
       /\ PositionOf(new, old[k].id) # 0
       /\ new[PositionOf(new, old[k].id)].date = old[k].date

\* every trade of old is in new under its id and with its content
SameContent(old, new) ==
  /\ Len(new) = Len(old)
  /\ \A k \in 1..Len(old) :
       /\ PositionOf(new, old[k].id) # 0
       /\ new[PositionOf(new, old[k].id)] = old[k]

C28_AmendKeepsReplayPosition ==
  [][lastOp'.op = "amendTrade" =>
       \A i \in 1..Len(investments) :
         LET old == investments[i].history
             new == investments'[i].history
         IN  /\ SameIdsAndDates(old, new) =>
                  \A k \in 1..Len(old) : new[k].id = old[k].id
             /\ SameContent(old, new) =>
                  /\ investments'[i].qty = investments[i].qty
                  /\ investments'[i].avgBuyPrice = investments[i].avgBuyPrice
                  /\ investments'[i].totalRealizedPL = investments[i].totalRealizedPL]_vars


\* C29: for every trade execution the change applied to the balance of the
\* settlement account equals signedDelta of the linked transaction created
\* for the trade, also for a sell whose charges exceed qty*price.
C29_BalanceChangeIsSignedDelta ==
  [][lastOp'.op \in {"trade", "amendTrade"} =>
       /\ transactions' # <<>>
       /\ transactions'[1].account \in DOMAIN accounts
       /\ accounts'[transactions'[1].account].balance
            - accounts[transactions'[1].account].balance
          = signedDelta(transactions'[1])]_vars


\* C30: after any sequence of operations the ids of the live transactions
\* are pairwise different, and so are the ids of the trades in the history
\* of every asset, also when two creating operations read the same
\* millisecond from the clock.
C30_IdsUnique ==
  /\ \A j, k \in 1..Len(transactions) :
       transactions[j].id = transactions[k].id => j = k
  /\ \A i \in 1..Len(investments) :
       \A j, k \in 1..Len(investments[i].history) :
         investments[i].history[j].id = investments[i].history[k].id => j = k

====
